---- MODULE Spec2Model ----
(***************************************************************************)
(* Model of the pose renderer (pose_renderer.py): the keypoint overlay     *)
(* draw_pose_on_frame and the streaming pipeline render_video_with_pose.   *)
(*                                                                         *)
(* Scores and coordinates are floats in the program.  Here a score is an   *)
(* integer number of tenths (0.5 is 5) and a coordinate an integer number  *)
(* of tenths of a pixel; int() truncates toward zero.  Python indices are  *)
(* 0-based; a sequence position k of the program is position k+1 here.     *)
(***************************************************************************)
EXTENDS Integers, Sequences, FiniteSets, TLC

\* ------------------------------------------------------------ bounds
\* longest keypoint / score list of the freely enumerated persons
MaxKp == 2
\* longest video, in frames
MaxFrames == 2
\* most frame records in a detection document
MaxRecords == 2

\* ------------------------------------------------- program constants
\* min_score_thresh=0.5, in tenths
MinScoreThresh == 5
\* point_radius=5
PointRadius == 5
\* line_thickness=2
LineThickness == 2
\* len(COCO_KEYPOINTS)
NumKeypoints == 17

COCO_CONNECTIONS ==
    << <<0, 1>>, <<0, 2>>, <<1, 3>>, <<2, 4>>,
       <<5, 6>>,
       <<5, 7>>, <<7, 9>>,
       <<6, 8>>, <<8, 10>>,
       <<5, 11>>, <<6, 12>>, <<11, 12>>,
       <<11, 13>>, <<13, 15>>,
       <<12, 14>>, <<14, 16>> >>

\* ------------------------------------------------------- JSON values
\* An element of a predictions list: a dict (its keys, and the values of
\* 'keypoints' and 'keypoint_scores'), a list (its items) or anything else
\* (a non-empty string: no .get, not a list, not a dict).
Entry(kind, keys, kps, scs, items) ==
    [kind |-> kind, keys |-> keys, keypoints |-> kps,
     keypoint_scores |-> scs, items |-> items]

DictEntry(keys, kps, scs) == Entry("dict", keys, kps, scs, <<>>)
ListEntry(items) == Entry("list", {}, <<>>, <<>>, items)
OtherEntry == Entry("other", {}, <<>>, <<>>, <<>>)

\* An element of a 'keypoints' list: pair is TRUE for a two-element [x, y];
\* FALSE for a value that does not unpack into two (a triple, a scalar).
Keypoint(x, y) == [pair |-> TRUE, x |-> x, y |-> y]
BadKeypoint == [pair |-> FALSE, x |-> 0, y |-> 0]

\* A predictions payload: a list of entries, or a value that is not a list.
ListRaw(elems) == [isList |-> TRUE, elems |-> elems]
NonListRaw == [isList |-> FALSE, elems |-> <<>>]

\* Python truth value of an entry: an empty dict and an empty list are false.
Truthy(e) ==
    CASE e.kind = "dict" -> e.keys # {}
      [] e.kind = "list" -> e.items # <<>>
      [] OTHER -> TRUE

\* dict.get(key, []) for the two keys the overlay reads
GetKeypoints(person) ==
    IF "keypoints" \in person.keys THEN person.keypoints ELSE <<>>

GetScores(person) ==
    IF "keypoint_scores" \in person.keys THEN person.keypoint_scores ELSE <<>>

\* int(x): truncation toward zero, on tenths
IntOf(x) == IF x >= 0 THEN x \div 10 ELSE -((-x) \div 10)

\* ------------------------------------------------ draw_pose_on_frame
\* the min_score_thresh argument (0.5 unless the caller gives another)
VARIABLE min_score_thresh

\* A frame is the decoded image it came from (src) and the drawing calls
\* applied to it, in call order.  A drawing call records its geometry and
\* the person and keypoint indices (0-based) it was issued for.
Frame(src) == [src |-> src, ops |-> <<>>]

Circle(pidx, k, d) ==
    [kind |-> "circle", person |-> pidx, a |-> k, b |-> k,
     p1 |-> <<d.x, d.y>>, p2 |-> <<d.x, d.y>>, size |-> PointRadius]

Line(pidx, a, b, d1, d2) ==
    [kind |-> "line", person |-> pidx, a |-> a, b |-> b,
     p1 |-> <<d1.x, d1.y>>, p2 |-> <<d2.x, d2.y>>, size |-> LineThickness]

\* KeypointsData with a missing score taken as 1.0
KeypointsData_DefaultOne(kps, scs) ==
    [i \in 1..Len(kps) |->
        [x |-> IntOf(kps[i].x), y |-> IntOf(kps[i].y),
         score |-> IF i <= Len(scs) THEN scs[i] ELSE 10]]

\* keypoints_data: (int(x), int(y), score), score 0.0 past the end of scores
KeypointsData(kps, scs) ==
    [i \in 1..Len(kps) |->
        [x |-> IntOf(kps[i].x), y |-> IntOf(kps[i].y),
         score |-> IF i <= Len(scs) THEN scs[i] ELSE 0]]

\* the unpacking "for i, (x, y) in enumerate(keypoints_coords)" fails
UnpackFails(kps) == \E i \in 1..Len(kps) : ~kps[i].pair

\* DrawsCircleIf with >= for >
DrawsCircleIf_GE(score) == score >= min_score_thresh

\* line 60: score > min_score_thresh
DrawsCircleIf(score) == score > min_score_thresh

RECURSIVE CirclesFrom(_, _, _)
\* the circles of data[k..], for 1-based k
CirclesFrom(data, k, pidx) ==
    IF k > Len(data) THEN <<>>
    ELSE (IF DrawsCircleIf(data[k].score)
             THEN << Circle(pidx, k - 1, data[k]) >> ELSE <<>>)
         \o CirclesFrom(data, k + 1, pidx)

\* DrawsLineIf with 'or' for 'and' at line 73
DrawsLineIf_Either(data, a, b) ==
    /\ a < Len(data) /\ b < Len(data)
    /\ (data[a + 1].score > min_score_thresh \/ data[b + 1].score > min_score_thresh)

\* lines 69 and 73, for 0-based a and b
DrawsLineIf(data, a, b) ==
    /\ a < Len(data) /\ b < Len(data)
    /\ data[a + 1].score > min_score_thresh
    /\ data[b + 1].score > min_score_thresh

RECURSIVE LinesFrom(_, _, _)
\* the lines of COCO_CONNECTIONS[c..]
LinesFrom(data, c, pidx) ==
    IF c > Len(COCO_CONNECTIONS) THEN <<>>
    ELSE LET a == COCO_CONNECTIONS[c][1]
             b == COCO_CONNECTIONS[c][2]
         IN (IF DrawsLineIf(data, a, b)
                THEN << Line(pidx, a, b, data[a + 1], data[b + 1]) >>
                ELSE <<>>)
            \o LinesFrom(data, c + 1, pidx)

\* One iteration of "for person_prediction in predictions" on the drawing
\* calls so far: the calls after it, or the fault it raises.
DrawPerson(ops, person, pidx) ==
    IF person.kind # "dict"
      THEN [raised |-> "AttributeError", ops |-> ops]
    ELSE IF GetKeypoints(person) = <<>> \/ GetScores(person) = <<>>
      THEN [raised |-> "none", ops |-> ops]
    ELSE IF UnpackFails(GetKeypoints(person))
      THEN [raised |-> "ValueError", ops |-> ops]
    ELSE LET data == KeypointsData(GetKeypoints(person), GetScores(person))
         IN [raised |-> "none",
             ops |-> ops \o CirclesFrom(data, 1, pidx) \o LinesFrom(data, 1, pidx)]

RECURSIVE DrawFrom(_, _, _)
\* the loop over predictions[k..]; a fault ends it
DrawFrom(ops, predictions, k) ==
    IF k > Len(predictions) THEN [raised |-> "none", ops |-> ops]
    ELSE LET r == DrawPerson(ops, predictions[k], k - 1)
         IN IF r.raised # "none" THEN r
            ELSE DrawFrom(r.ops, predictions, k + 1)

\* draw_pose_on_frame(frame, predictions): the frame returned, or the fault
draw_pose_on_frame(frame, predictions) ==
    IF predictions = <<>> THEN [raised |-> "none", frame |-> frame]
    ELSE LET r == DrawFrom(frame.ops, predictions, 1)
         IN [raised |-> r.raised, frame |-> [frame EXCEPT !.ops = r.ops]]

\* NormalizePredictions joining the persons of the first two inner lists
NormalizePredictions_Flatten(raw) ==
    IF raw.isList /\ raw.elems # <<>> /\ Truthy(raw.elems[1])
          /\ raw.elems[1].kind = "list"
      THEN IF Len(raw.elems) >= 2 /\ raw.elems[2].kind = "list"
             THEN raw.elems[1].items \o raw.elems[2].items
             ELSE raw.elems[1].items
    ELSE IF raw.isList /\ raw.elems # <<>> /\ Truthy(raw.elems[1])
          /\ raw.elems[1].kind = "dict"
      THEN raw.elems
    ELSE <<>>

\* lines 129-134: the person list taken from a predictions payload
NormalizePredictions(raw) ==
    IF raw.isList /\ raw.elems # <<>> /\ Truthy(raw.elems[1])
          /\ raw.elems[1].kind = "list"
      THEN raw.elems[1].items
    ELSE IF raw.isList /\ raw.elems # <<>> /\ Truthy(raw.elems[1])
          /\ raw.elems[1].kind = "dict"
      THEN raw.elems
    ELSE <<>>

\* ------------------------------------------------------------ inputs
\* A frame record of the 'frames' sequence: a dict that may lack either key.
FrameRecord(has_idx, idx, has_pred, raw) ==
    [has_idx |-> has_idx, frame_idx |-> idx,
     has_pred |-> has_pred, predictions |-> raw]

\* A detection document: a dict that may lack 'frames' (an error document).
Document(has_frames, frames) == [has_frames |-> has_frames, frames |-> frames]

\* A source video: whether it opens, its frames, and how many of them decode
\* before cap.read() gives up (all of them for a clean source).
Video(openable, n, d) == [openable |-> openable, nframes |-> n, ndecodable |-> d]

Both == {"keypoints", "keypoint_scores"}

\* two keypoints above the threshold: two circles and the bone (0, 1)
GoodPerson == DictEntry(Both, << Keypoint(27, -15), Keypoint(-15, 27) >>, <<9, 9>>)
\* {}
EmptyPerson == DictEntry({}, <<>>, <<>>)
\* a dict with no 'keypoint_scores'
NoScoresPerson == DictEntry({"keypoints"}, << Keypoint(27, -15) >>, <<>>)
\* a dict whose first keypoint is no pair
BadKpPerson == DictEntry(Both, << BadKeypoint >>, <<9>>)

\* the predictions payloads of the documents given to the pipeline
PredSamples ==
    { ListRaw(<<>>),
      NonListRaw,
      ListRaw(<< GoodPerson >>),
      ListRaw(<< ListEntry(<< GoodPerson >>) >>),
      ListRaw(<< GoodPerson, OtherEntry >>) }

FrameRecords ==
    { FrameRecord(TRUE, idx, TRUE, raw) : idx \in 0..MaxFrames, raw \in PredSamples }
    \cup { FrameRecord(TRUE, 0, FALSE, ListRaw(<<>>)) }
    \cup { FrameRecord(FALSE, 0, TRUE, ListRaw(<< GoodPerson >>)) }

SeqsUpTo(S, n) == UNION { [1..k -> S] : k \in 0..n }

Documents ==
    { Document(FALSE, <<>>) }
    \cup { Document(TRUE, fs) : fs \in SeqsUpTo(FrameRecords, MaxRecords) }

Videos ==
    { Video(FALSE, 0, 0) }
    \cup UNION { { Video(TRUE, n, d) : d \in 0..n } : n \in 0..MaxFrames }

\* the 8-hex-digit values str(uuid.uuid4())[:8] can take
Ids == {"0a1b2c3d", "4e5f6a7b"}

\* the invocations of render_video_with_pose
Invs == {1, 2}

\* ------------------------------------------------------------- state
VARIABLES
    pc,                  \* where each invocation of render_video_with_pose is
    video,               \* its video_path argument: the source it names
    doc,                 \* its api_response_json argument
    cap_open,            \* cap holds an open decoder
    out_open,            \* out holds an open encoder
    cap_pos,             \* frames cap.read() has returned
    processed_video_id,  \* the generated name, "none" before line 101
    api_frames_data,     \* the index built at line 115
    current_frame_idx,
    frame,               \* the frame of the last successful cap.read()
    rendered_frame,
    decoded,             \* every frame cap.read() returned, in order
    written,             \* every frame given to out.write(), in order
    result,              \* the value returned: "pending" until the return
    exc,                 \* the fault that left the invocation, or "none"
    files,               \* the names created in the output directory
    payload,             \* overlay of one payload: predictions_raw
    persons,             \*   predictions_for_current_frame
    overlay,             \*   what draw_pose_on_frame gave
    stage,               \*   "raw", "normalized", "drawn" ("off" when unused)
    props,               \* the CAP_PROP_* values of each invocation's source
    cap_props,           \* fps, width, height as read at lines 96-98
    out_params,          \* what the encoder was opened with at line 108
    handler,             \* where each request to upload is
    video_id,            \* its video_id, str(uuid.uuid4())[:8]
    extension,           \* the extension of the uploaded file's name
    pose_api_response,   \* what the handler holds after the pose call
    response,            \* the JSON body the handler returned
    history_file,        \* history.json
    uploads              \* the files of UPLOAD_DIR: name to content

uploadVars ==
    << handler, video_id, extension, pose_api_response, response,
       history_file, uploads >>

vars ==
    << uploadVars, pc, video, doc, cap_open, out_open, cap_pos, processed_video_id,
       api_frames_data, current_frame_idx, frame, rendered_frame, decoded,
       written, result, exc, files, payload, persons, overlay, stage,
       min_score_thresh, props, cap_props, out_params >>

pipeVars_render ==
    << pc, video, doc, cap_open, out_open, cap_pos, processed_video_id,
       api_frames_data, current_frame_idx, frame, rendered_frame, decoded,
       written, result, exc, files, props, cap_props, out_params >>

pipeVars ==
    << uploadVars, pc, video, doc, cap_open, out_open, cap_pos, processed_video_id,
       api_frames_data, current_frame_idx, frame, rendered_frame, decoded,
       written, result, exc, files, props, cap_props, out_params >>

drawVars == << payload, persons, overlay, stage, min_score_thresh >>

NoFrame == Frame(-1)

\* fps, width and height before they are read
NoProps == [fps |-> -1, width |-> -1, height |-> -1]

\* CAP_PROP_FPS, CAP_PROP_FRAME_WIDTH, CAP_PROP_FRAME_HEIGHT of a source, as
\* the floats cap.get returns, in tenths: 30.0 fps, 640.0 by 480.0
DefaultProps == [fps |-> 300, width |-> 6400, height |-> 4800]

\* the locals of the invocations, before any of them runs
InitLocals ==
    /\ cap_open = [i \in Invs |-> FALSE]
    /\ out_open = [i \in Invs |-> FALSE]
    /\ cap_pos = [i \in Invs |-> 0]
    /\ processed_video_id = [i \in Invs |-> "none"]
    /\ api_frames_data = [i \in Invs |-> <<>>]
    /\ current_frame_idx = [i \in Invs |-> 0]
    /\ frame = [i \in Invs |-> NoFrame]
    /\ rendered_frame = [i \in Invs |-> NoFrame]
    /\ decoded = [i \in Invs |-> <<>>]
    /\ written = [i \in Invs |-> <<>>]
    /\ result = [i \in Invs |-> "pending"]
    /\ exc = [i \in Invs |-> "none"]
    /\ files = {}
    /\ cap_props = [i \in Invs |-> NoProps]
    /\ out_params = [i \in Invs |-> NoProps]

DrawOff ==
    /\ payload = ListRaw(<<>>)
    /\ persons = <<>>
    /\ overlay = [raised |-> "none", frame |-> NoFrame]
    /\ stage = "off"
    /\ min_score_thresh = MinScoreThresh

\* lines 21-22
UPLOAD_DIR == "static/videos"

PROCESSED_DIR == "static/processed_videos"

\* an identifier as its first seven characters and its last one
NoId == [head |-> "", last |-> ""]

\* a URL as the directory part and the parts of the file name
Url(dir, name) == [dir |-> dir, name |-> name]

NoResponse ==
    [sent |-> FALSE, video_id |-> NoId, original_video_url |-> Url("", <<>>),
     processed_video_url |-> Url("", <<>>),
     pose_data |-> [error |-> FALSE, body |-> [has_frames |-> FALSE, frames |-> <<>>]]]

\* history.json before the first append_history
NoHistoryFile == [exists |-> FALSE, entries |-> <<>>]

\* no request to upload is made
UploadOff ==
    /\ handler = [i \in Invs |-> "off"]
    /\ video_id = [i \in Invs |-> NoId]
    /\ extension = [i \in Invs |-> ""]
    /\ pose_api_response = [i \in Invs |-> NoResponse.pose_data]
    /\ response = [i \in Invs |-> NoResponse]
    /\ history_file = NoHistoryFile
    /\ uploads = <<>>

\* One invocation, on any source and any document.
Init ==
    /\ pc = [i \in Invs |-> IF i = 1 THEN "open_source" ELSE "idle"]
    /\ \E v \in Videos : video = [i \in Invs |-> v]
    /\ \E d \in Documents : doc = [i \in Invs |-> d]
    /\ props = [i \in Invs |-> DefaultProps]
    /\ InitLocals
    /\ UploadOff
    /\ DrawOff

\* ------------------------------------------- render_video_with_pose
\* lines 96-98: fps as the float cap.get gives, width and height through int()
ReadProps(p) == [fps |-> p.fps, width |-> IntOf(p.width), height |-> IntOf(p.height)]

\* OpenSource with the output name generated and the encoder created before
\* cap.isOpened() is looked at
OpenSource_WriterFirst(i) ==
    /\ pc[i] = "open_source"
    /\ \E id \in Ids :
         /\ processed_video_id' = [processed_video_id EXCEPT ![i] = id]
         /\ files' = files \cup {id}
    /\ IF video[i].openable
         THEN /\ cap_open' = [cap_open EXCEPT ![i] = TRUE]
              /\ cap_props' = [cap_props EXCEPT ![i] = ReadProps(props[i])]
              /\ pc' = [pc EXCEPT ![i] = "gen_name"]
              /\ UNCHANGED result
         ELSE /\ result' = [result EXCEPT ![i] = ""]
              /\ pc' = [pc EXCEPT ![i] = "returned"]
              /\ UNCHANGED << cap_open, cap_props >>
    /\ UNCHANGED << uploadVars, props, out_params,
                    video, doc, out_open, cap_pos, api_frames_data,
                    current_frame_idx, frame, rendered_frame, decoded, written,
                    exc, drawVars >>

\* lines 90-98: cap = cv2.VideoCapture(video_path); the early return
OpenSource(i) ==
    /\ pc[i] = "open_source"
    /\ IF video[i].openable
         THEN /\ cap_open' = [cap_open EXCEPT ![i] = TRUE]
              /\ cap_props' = [cap_props EXCEPT ![i] = ReadProps(props[i])]
              /\ pc' = [pc EXCEPT ![i] = "gen_name"]
              /\ UNCHANGED result
         ELSE /\ result' = [result EXCEPT ![i] = ""]
              /\ pc' = [pc EXCEPT ![i] = "returned"]
              /\ UNCHANGED << cap_open, cap_props >>
    /\ UNCHANGED << uploadVars, props, out_params,
                    video, doc, out_open, cap_pos, processed_video_id,
                    api_frames_data, current_frame_idx, frame, rendered_frame,
                    decoded, written, exc, files, drawVars >>

\* lines 101-103: str(uuid.uuid4())[:8], any of its values
GenName(i) ==
    /\ pc[i] = "gen_name"
    /\ \E id \in Ids : processed_video_id' = [processed_video_id EXCEPT ![i] = id]
    /\ pc' = [pc EXCEPT ![i] = "open_writer"]
    /\ UNCHANGED << uploadVars, props, cap_props, out_params,
                    video, doc, cap_open, out_open, cap_pos, api_frames_data,
                    current_frame_idx, frame, rendered_frame, decoded, written,
                    result, exc, files, drawVars >>

\* OpenWriter with the frame size given as (height, width)
WriterParams_Swapped(p) == [fps |-> p.fps, width |-> p.height, height |-> p.width]

\* line 108: fps and (width, height) as given to cv2.VideoWriter
WriterParams(p) == [fps |-> p.fps, width |-> p.width, height |-> p.height]

\* lines 107-113: out = cv2.VideoWriter(...), which the platform may refuse
OpenWriter(i) ==
    /\ pc[i] = "open_writer"
    /\ out_params' = [out_params EXCEPT ![i] = WriterParams(cap_props[i])]
    /\ \E opened \in BOOLEAN :
         IF opened
           THEN /\ out_open' = [out_open EXCEPT ![i] = TRUE]
                /\ files' = files \cup {processed_video_id[i]}
                /\ pc' = [pc EXCEPT ![i] = "build_index"]
                /\ UNCHANGED << cap_open, result >>
           ELSE /\ cap_open' = [cap_open EXCEPT ![i] = FALSE]
                /\ result' = [result EXCEPT ![i] = ""]
                /\ pc' = [pc EXCEPT ![i] = "returned"]
                /\ UNCHANGED << out_open, files >>
    /\ UNCHANGED << uploadVars, props, cap_props,
                    video, doc, cap_pos, processed_video_id, api_frames_data,
                    current_frame_idx, frame, rendered_frame, decoded, written,
                    exc, drawVars >>

\* api_response_json.get('frames', [])
GetFrames(d) == IF d.has_frames THEN d.frames ELSE <<>>

\* IndexOf keeping the first record of each frame_idx
IndexOf_FirstWins(frames) ==
    [k \in { frames[j].frame_idx : j \in 1..Len(frames) } |->
        frames[CHOOSE j \in 1..Len(frames) :
                  /\ frames[j].frame_idx = k
                  /\ \A j2 \in 1..(j - 1) : frames[j2].frame_idx # k]]

\* the dict comprehension of line 115: a later record replaces an earlier one
IndexOf(frames) ==
    [k \in { frames[j].frame_idx : j \in 1..Len(frames) } |->
        frames[CHOOSE j \in 1..Len(frames) :
                  /\ frames[j].frame_idx = k
                  /\ \A j2 \in (j + 1)..Len(frames) : frames[j2].frame_idx # k]]

\* frame_data['frame_idx'] of some record raises KeyError
IndexFails(frames) == \E j \in 1..Len(frames) : ~frames[j].has_idx

\* line 115
BuildIndex(i) ==
    /\ pc[i] = "build_index"
    /\ IF IndexFails(GetFrames(doc[i]))
         THEN /\ exc' = [exc EXCEPT ![i] = "KeyError"]
              /\ pc' = [pc EXCEPT ![i] = "raised"]
              /\ UNCHANGED api_frames_data
         ELSE /\ api_frames_data' =
                    [api_frames_data EXCEPT ![i] = IndexOf(GetFrames(doc[i]))]
              /\ pc' = [pc EXCEPT ![i] = "read"]
              /\ UNCHANGED exc
    /\ UNCHANGED << uploadVars, props, cap_props, out_params,
                    video, doc, cap_open, out_open, cap_pos, processed_video_id,
                    current_frame_idx, frame, rendered_frame, decoded, written,
                    result, files, drawVars >>

\* lines 119-121: ret, frame = cap.read(); the k-th frame of the source is
\* Frame(k)
Read(i) ==
    /\ pc[i] = "read"
    /\ IF cap_pos[i] < video[i].ndecodable
         THEN /\ frame' = [frame EXCEPT ![i] = Frame(cap_pos[i])]
              /\ decoded' = [decoded EXCEPT ![i] = Append(@, Frame(cap_pos[i]))]
              /\ cap_pos' = [cap_pos EXCEPT ![i] = @ + 1]
              /\ pc' = [pc EXCEPT ![i] = "draw"]
         ELSE /\ pc' = [pc EXCEPT ![i] = "release"]
              /\ UNCHANGED << frame, decoded, cap_pos >>
    /\ UNCHANGED << uploadVars, props, cap_props, out_params,
                    video, doc, cap_open, out_open, processed_video_id,
                    api_frames_data, current_frame_idx, rendered_frame, written,
                    result, exc, files, drawVars >>

\* PredictionsRaw falling back to the previous frame's record when the
\* index holds none for idx
PredictionsRaw_Carry(index, idx) ==
    IF idx \in DOMAIN index /\ index[idx].has_pred
      THEN index[idx].predictions
    ELSE IF idx \notin DOMAIN index /\ (idx - 1) \in DOMAIN index
            /\ index[idx - 1].has_pred
      THEN index[idx - 1].predictions
    ELSE ListRaw(<<>>)

\* line 124: api_frames_data.get(idx, {}).get('predictions', [])
PredictionsRaw(index, idx) ==
    IF idx \in DOMAIN index /\ index[idx].has_pred
      THEN index[idx].predictions
      ELSE ListRaw(<<>>)

\* lines 124-140: look up, normalize, draw on a copy of the frame
Draw(i) ==
    /\ pc[i] = "draw"
    /\ LET predictions_raw == PredictionsRaw(api_frames_data[i], current_frame_idx[i])
           r == draw_pose_on_frame(frame[i], NormalizePredictions(predictions_raw))
       IN IF r.raised # "none"
            THEN /\ exc' = [exc EXCEPT ![i] = r.raised]
                 /\ pc' = [pc EXCEPT ![i] = "raised"]
                 /\ UNCHANGED rendered_frame
            ELSE /\ rendered_frame' = [rendered_frame EXCEPT ![i] = r.frame]
                 /\ pc' = [pc EXCEPT ![i] = "write"]
                 /\ UNCHANGED exc
    /\ UNCHANGED << uploadVars, props, cap_props, out_params,
                    video, doc, cap_open, out_open, cap_pos, processed_video_id,
                    api_frames_data, current_frame_idx, frame, decoded, written,
                    result, files, drawVars >>

\* Write without "current_frame_idx += 1"
Write_NoAdvance(i) ==
    /\ pc[i] = "write"
    /\ written' = [written EXCEPT ![i] = Append(@, rendered_frame[i])]
    /\ pc' = [pc EXCEPT ![i] = "read"]
    /\ UNCHANGED << uploadVars, props, cap_props, out_params, current_frame_idx,
                    video, doc, cap_open, out_open, cap_pos, processed_video_id,
                    api_frames_data, frame, rendered_frame, decoded, result,
                    exc, files, drawVars >>

\* Write giving the encoder the decoded frame instead of the rendered one
Write_RawFrame(i) ==
    /\ pc[i] = "write"
    /\ written' = [written EXCEPT ![i] = Append(@, frame[i])]
    /\ current_frame_idx' = [current_frame_idx EXCEPT ![i] = @ + 1]
    /\ pc' = [pc EXCEPT ![i] = "read"]
    /\ UNCHANGED << uploadVars, props, cap_props, out_params,
                    video, doc, cap_open, out_open, cap_pos, processed_video_id,
                    api_frames_data, frame, rendered_frame, decoded, result,
                    exc, files, drawVars >>

\* lines 142-143
Write(i) ==
    /\ pc[i] = "write"
    /\ written' = [written EXCEPT ![i] = Append(@, rendered_frame[i])]
    /\ current_frame_idx' = [current_frame_idx EXCEPT ![i] = @ + 1]
    /\ pc' = [pc EXCEPT ![i] = "read"]
    /\ UNCHANGED << uploadVars, props, cap_props, out_params,
                    video, doc, cap_open, out_open, cap_pos, processed_video_id,
                    api_frames_data, frame, rendered_frame, decoded, result,
                    exc, files, drawVars >>

\* lines 145-148
Release(i) ==
    /\ pc[i] = "release"
    /\ cap_open' = [cap_open EXCEPT ![i] = FALSE]
    /\ out_open' = [out_open EXCEPT ![i] = FALSE]
    /\ result' = [result EXCEPT ![i] = processed_video_id[i]]
    /\ pc' = [pc EXCEPT ![i] = "returned"]
    /\ UNCHANGED << uploadVars, props, cap_props, out_params,
                    video, doc, cap_pos, processed_video_id, api_frames_data,
                    current_frame_idx, frame, rendered_frame, decoded, written,
                    exc, files, drawVars >>

Step(i) ==
    \/ OpenSource(i)
    \/ GenName(i)
    \/ OpenWriter(i)
    \/ BuildIndex(i)
    \/ Read(i)
    \/ Draw(i)
    \/ Write(i)
    \/ Release(i)

Next == \E i \in Invs : Step(i)

Spec == Init /\ [][Next]_vars

\* --------------------------------------------- concurrent invocations
\* Two invocations into the same output directory, interleaved in any way.
VideosConc == { Video(FALSE, 0, 0), Video(TRUE, 1, 1) }

DocumentsConc ==
    { Document(FALSE, <<>>),
      Document(TRUE, << FrameRecord(TRUE, 0, TRUE, ListRaw(<< GoodPerson >>)) >>),
      Document(TRUE, << FrameRecord(FALSE, 0, TRUE, ListRaw(<< GoodPerson >>)) >>),
      Document(TRUE, << FrameRecord(TRUE, 0, TRUE, ListRaw(<< GoodPerson, OtherEntry >>)) >>) }

InitConc ==
    /\ pc = [i \in Invs |-> "open_source"]
    /\ video \in [Invs -> VideosConc]
    /\ doc \in [Invs -> DocumentsConc]
    /\ props = [i \in Invs |-> DefaultProps]
    /\ InitLocals
    /\ UploadOff
    /\ DrawOff

SpecConc == InitConc /\ [][Next]_vars

\* ------------------------------------------------ sources of any shape
\* One invocation on sources of several frame rates and frame sizes.
PropsSet ==
    { [fps |-> f, width |-> w, height |-> h] :
        f \in {240, 300}, w \in {6400, 12800}, h \in {4800, 7200} }

InitProps ==
    /\ pc = [i \in Invs |-> IF i = 1 THEN "open_source" ELSE "idle"]
    /\ \E v \in VideosConc : video = [i \in Invs |-> v]
    /\ \E d \in DocumentsConc : doc = [i \in Invs |-> d]
    /\ \E p \in PropsSet : props = [i \in Invs |-> p]
    /\ InitLocals
    /\ UploadOff
    /\ DrawOff

SpecProps == InitProps /\ [][Next]_vars

\* ------------------------------------------ the overlay of one payload
\* lines 124-140 applied to one predictions payload and one frame
ScoreValues == {2, MinScoreThresh, 9}

KeypointValues == { Keypoint(27, -15), Keypoint(-15, 27), BadKeypoint }

\* every dict over the two keys with lists of at most MaxKp elements
PersonsFree ==
    { DictEntry(Both, kps, scs) :
        kps \in SeqsUpTo(KeypointValues, MaxKp), scs \in SeqsUpTo(ScoreValues, MaxKp) }
    \cup { DictEntry({"keypoints"}, kps, <<>>) : kps \in SeqsUpTo(KeypointValues, MaxKp) }
    \cup { DictEntry({"keypoint_scores"}, <<>>, scs) : scs \in SeqsUpTo(ScoreValues, MaxKp) }
    \cup { EmptyPerson, DictEntry({"bbox"}, <<>>, <<>>) }

\* n keypoints and m scores, all 0.9 except score v at 0-based index low
ProfilePerson(n, m, low, v) ==
    DictEntry(Both,
              [k \in 1..n |-> Keypoint(10 * k, 10 * k + 5)],
              [k \in 1..m |-> IF k - 1 = low THEN v ELSE 9])

PersonsProfile ==
    { ProfilePerson(n, NumKeypoints, low, v) :
        n \in 1..NumKeypoints, low \in -1..(NumKeypoints - 1), v \in {2, MinScoreThresh} }
    \cup { ProfilePerson(NumKeypoints, m, -1, 9) : m \in 1..NumKeypoints }

PersonSamples == { GoodPerson, EmptyPerson, NoScoresPerson, BadKpPerson, OtherEntry }

Payloads ==
    { NonListRaw, ListRaw(<<>>) }
    \cup { ListRaw(<< p >>) : p \in PersonsFree \cup PersonsProfile \cup {OtherEntry} }
    \cup { ListRaw(<< p, q >>) : p \in PersonSamples, q \in PersonSamples }
    \cup { ListRaw(<< ListEntry(ps) >>) : ps \in SeqsUpTo(PersonSamples, 2) }
    \cup { ListRaw(<< ListEntry(ps), ListEntry(qs) >>) :
             ps \in SeqsUpTo(PersonSamples, 1), qs \in SeqsUpTo(PersonSamples, 1) }
    \cup { ListRaw(<< ListEntry(ps), q >>) :
             ps \in SeqsUpTo(PersonSamples, 1), q \in PersonSamples }
    \cup { ListRaw(<< q, ListEntry(ps) >>) :
             ps \in SeqsUpTo(PersonSamples, 1), q \in PersonSamples }

InitDraw ==
    /\ pc = [i \in Invs |-> "idle"]
    /\ video = [i \in Invs |-> Video(FALSE, 0, 0)]
    /\ doc = [i \in Invs |-> Document(FALSE, <<>>)]
    /\ props = [i \in Invs |-> DefaultProps]
    /\ InitLocals
    /\ UploadOff
    /\ payload \in Payloads
    /\ persons = <<>>
    /\ overlay = [raised |-> "none", frame |-> NoFrame]
    /\ stage = "raw"
    /\ min_score_thresh = MinScoreThresh

\* lines 129-134
Normalize ==
    /\ stage = "raw"
    /\ persons' = NormalizePredictions(payload)
    /\ stage' = "normalized"
    /\ UNCHANGED << payload, overlay, min_score_thresh, pipeVars >>

\* lines 137-140
Overlay ==
    /\ stage = "normalized"
    /\ overlay' = draw_pose_on_frame(Frame(0), persons)
    /\ stage' = "drawn"
    /\ UNCHANGED << payload, persons, min_score_thresh, pipeVars >>

NextDraw == Normalize \/ Overlay

SpecDraw == InitDraw /\ [][NextDraw]_vars

\* the overlay called with other thresholds than the default
Thresholds == {0, MinScoreThresh, 8}

InitThresh ==
    /\ pc = [i \in Invs |-> "idle"]
    /\ video = [i \in Invs |-> Video(FALSE, 0, 0)]
    /\ doc = [i \in Invs |-> Document(FALSE, <<>>)]
    /\ props = [i \in Invs |-> DefaultProps]
    /\ InitLocals
    /\ UploadOff
    /\ payload \in Payloads
    /\ persons = <<>>
    /\ overlay = [raised |-> "none", frame |-> NoFrame]
    /\ stage = "raw"
    /\ min_score_thresh \in Thresholds

SpecThresh == InitThresh /\ [][NextDraw]_vars

\* ------------------------------------------------------ main.py: upload
\* Requests to POST /upload. The handler is a coroutine that never awaits,
\* so the event loop runs it from its first line to its return before it
\* starts another.
UploadIds == { [head |-> "0a1b2c3", last |-> c] : c \in {"1", "d"} }

Extensions == {".mp4"}

\* lines 85-90: what the handler puts in place of a response it did not get
ErrorDocument == Document(FALSE, <<>>)

\* f"{video_id}{extension}"
UploadName(id, ext) == << id.head, id.last, ext >>

\* line 101 of pose_renderer.py: f"{processed_video_id}_pose_rendered.mp4"
OutputName(id) == << id, "_pose_rendered.mp4" >>

\* os.path.join(output_dir, output_video_filename)
JoinPath(dir, name) == [dir |-> dir, name |-> name]

\* os.path.basename
Basename(path) == path.name

\* app.mount("/static", StaticFiles(directory="static")): the directory a
\* URL's directory part is served from
Mounted(urldir) ==
    CASE urldir = "/static/videos" -> UPLOAD_DIR
      [] urldir = "/static/processed_videos" -> PROCESSED_DIR
      [] OTHER -> "none"

\* lines 39-43, the "result" field
mock_prediction(id) == IF id.last = "1" THEN "Good" ELSE "Bad"

\* lines 46-50
load_history(file) == IF file.exists THEN file.entries ELSE <<>>

HistoryEntry(filename, res) ==
    [timestamp |-> "2025-06-22", filename |-> filename, result |-> res]

\* append_history writing the new entry alone, without load_history
append_history_Fresh(file, filename, res) ==
    [exists |-> TRUE, entries |-> << HistoryEntry(filename, res) >>]

\* lines 53-61
append_history(file, filename, res) ==
    [exists |-> TRUE,
     entries |-> Append(load_history(file), HistoryEntry(filename, res))]

\* an entry written before the server started
EarlierEntry == HistoryEntry(<< "9f8e7d6", "c", ".mov" >>, "Bad")

HistoryFiles ==
    { NoHistoryFile,
      [exists |-> TRUE, entries |-> <<>>],
      [exists |-> TRUE, entries |-> << EarlierEntry >>] }

InitUpload ==
    /\ pc = [i \in Invs |-> "idle"]
    /\ video = [i \in Invs |-> Video(FALSE, 0, 0)]
    /\ doc = [i \in Invs |-> ErrorDocument]
    /\ props = [i \in Invs |-> DefaultProps]
    /\ InitLocals
    /\ DrawOff
    /\ handler = [i \in Invs |-> "idle"]
    /\ video_id = [i \in Invs |-> NoId]
    /\ extension = [i \in Invs |-> ""]
    /\ pose_api_response = [i \in Invs |-> NoResponse.pose_data]
    /\ response = [i \in Invs |-> NoResponse]
    /\ history_file \in HistoryFiles
    /\ uploads = <<>>

\* lines 68-94: the upload is saved, the pose service is called and
\* render_video_with_pose is entered
Receive(i) ==
    /\ handler[i] = "idle"
    /\ \A j \in Invs : handler[j] # "rendering"
    /\ \E id \in UploadIds, ext \in Extensions, v \in VideosConc,
          ok \in BOOLEAN, d \in DocumentsConc :
         LET body == IF ok THEN d ELSE ErrorDocument
             name == UploadName(id, ext)
         IN /\ video_id' = [video_id EXCEPT ![i] = id]
            /\ extension' = [extension EXCEPT ![i] = ext]
            /\ uploads' = [n \in DOMAIN uploads \cup {name} |->
                              IF n = name THEN v ELSE uploads[n]]
            /\ pose_api_response' =
                  [pose_api_response EXCEPT ![i] = [error |-> ~ok, body |-> body]]
            /\ video' = [video EXCEPT ![i] = v]
            /\ doc' = [doc EXCEPT ![i] = body]
    /\ handler' = [handler EXCEPT ![i] = "rendering"]
    /\ pc' = [pc EXCEPT ![i] = "open_source"]
    /\ UNCHANGED << response, history_file, props, cap_props, out_params,
                    cap_open, out_open, cap_pos, processed_video_id,
                    api_frames_data, current_frame_idx, frame, rendered_frame,
                    decoded, written, result, exc, files, drawVars >>

\* lines 96-102
ProcessedUrl(res, name) ==
    IF res = ""
      THEN Url("/static/videos", name)
      ELSE Url("/static/processed_videos",
               Basename(JoinPath(PROCESSED_DIR, OutputName(res))))

\* lines 96-113: render_video_with_pose has returned
Respond(i) ==
    /\ handler[i] = "rendering"
    /\ pc[i] = "returned"
    /\ LET name == UploadName(video_id[i], extension[i])
       IN /\ history_file' =
                append_history(history_file, name, mock_prediction(video_id[i]))
          /\ response' = [response EXCEPT ![i] =
                [sent |-> TRUE,
                 video_id |-> video_id[i],
                 original_video_url |-> Url("/static/videos", name),
                 processed_video_url |-> ProcessedUrl(result[i], name),
                 pose_data |-> pose_api_response[i]]]
    /\ handler' = [handler EXCEPT ![i] = "responded"]
    /\ UNCHANGED << video_id, extension, pose_api_response, uploads,
                    pipeVars_render, drawVars >>

\* line 94 when render_video_with_pose raises: the fault leaves the handler
Fault(i) ==
    /\ handler[i] = "rendering"
    /\ pc[i] = "raised"
    /\ handler' = [handler EXCEPT ![i] = "faulted"]
    /\ UNCHANGED << video_id, extension, pose_api_response, response,
                    history_file, uploads, pipeVars_render, drawVars >>

NextUpload == \E i \in Invs : Receive(i) \/ Step(i) \/ Respond(i) \/ Fault(i)

SpecUpload == InitUpload /\ [][NextUpload]_vars

\* ------------------------------------------------------------- claims
Exited(i) == pc[i] \in {"returned", "raised"}

\* C1: on every exit path of render_video_with_pose (failed opens, a fault
\* while building the index or processing a frame, end of stream) the
\* decoder and encoder handles the invocation acquired are released by the
\* time it returns to its caller.
C1_HandlesReleasedOnEveryExit ==
    \A i \in Invs : Exited(i) => ~cap_open[i] /\ ~out_open[i]

\* C2: once source and destination are open, no detection document makes
\* render_video_with_pose abort: it never leaves by a fault.
C2_DocumentNeverAborts ==
    \A i \in Invs : pc[i] # "raised"

\* the annotated image of the k-th decoded frame (0-based), from the
\* arguments of invocation i
Annotated(i, k) ==
    draw_pose_on_frame(
        Frame(k),
        NormalizePredictions(PredictionsRaw(IndexOf(GetFrames(doc[i])), k))).frame

\* C3: at every point of the streaming loop the frames written are the
\* annotated images of the frames decoded so far, in decode order, at most
\* the frame in hand not yet written; on a successful return as many frames
\* were written as decoded, and for a source that decodes cleanly that is
\* every frame of the source.
C3_WrittenIsAnnotatedPrefix ==
    \A i \in Invs :
        /\ Len(written[i]) = current_frame_idx[i]
        /\ Len(decoded[i]) = cap_pos[i]
        /\ \A k \in 1..Len(decoded[i]) : decoded[i][k] = Frame(k - 1)
        /\ \A k \in 1..Len(written[i]) :
              /\ k <= Len(decoded[i])
              /\ written[i][k].src = decoded[i][k].src
              /\ written[i][k] = Annotated(i, k - 1)
        /\ Len(decoded[i]) - Len(written[i]) =
              (IF pc[i] \in {"draw", "write"} \/ (pc[i] = "raised" /\ exc[i] # "KeyError")
                 THEN 1 ELSE 0)
        /\ (pc[i] = "returned" /\ result[i] # "") =>
              /\ Len(written[i]) = Len(decoded[i])
              /\ video[i].ndecodable = video[i].nframes =>
                    Len(written[i]) = video[i].nframes

\* C3 witness: a clean two-frame source rendered to the end, with a drawing
\* on its first frame
C3_Witness ==
    \E i \in Invs :
        /\ pc[i] = "returned" /\ result[i] # ""
        /\ video[i].nframes = 2 /\ video[i].ndecodable = 2
        /\ Len(written[i]) = 2
        /\ written[i][1].ops # <<>>

\* the invocations that have opened an encoder on their generated name
UsesPath(i) ==
    \/ pc[i] \in {"build_index", "read", "draw", "write", "release", "raised"}
    \/ pc[i] = "returned" /\ result[i] # ""

\* C4: any two invocations into the same output directory use distinct
\* output paths: none opens an encoder on a path another has written or is
\* writing.
C4_OutputPathsDistinct ==
    \A i, j \in Invs :
        (i # j /\ UsesPath(i) /\ UsesPath(j)) =>
            processed_video_id[i] # processed_video_id[j]

\* C5: when the source cannot be opened the invocation returns the empty
\* string, having generated no output name, opened no encoder and created
\* nothing in the output directory (it is the only invocation under Spec).
C5_NoSourceNoWrite ==
    \A i \in Invs :
        (~video[i].openable /\ pc[i] \notin {"idle", "open_source"}) =>
            /\ pc[i] = "returned"
            /\ result[i] = ""
            /\ processed_video_id[i] = "none"
            /\ ~out_open[i] /\ ~cap_open[i]
            /\ written[i] = <<>>
            /\ files = {}

\* C5 witness: an invocation on an unopenable source has returned
C5_Witness ==
    \E i \in Invs : ~video[i].openable /\ pc[i] = "returned" /\ result[i] = ""

\* the state of the spec's per-invocation state machine
Phase(p, r) ==
    CASE p \in {"idle", "open_source"} -> "Idle"
      [] p \in {"gen_name", "open_writer"} -> "SourceOpened"
      [] p = "build_index" -> "DestinationOpened"
      [] p \in {"read", "draw", "write", "release"} -> "Streaming"
      [] p = "returned" /\ r = "" -> "ClosedFail"
      [] p = "returned" /\ r # "" -> "ClosedSuccess"
      [] OTHER -> "Faulted"

PhaseEdges ==
    { <<"Idle", "SourceOpened">>, <<"SourceOpened", "DestinationOpened">>,
      <<"DestinationOpened", "Streaming">>, <<"Streaming", "ClosedSuccess">>,
      <<"Idle", "ClosedFail">>, <<"SourceOpened", "ClosedFail">> }

\* C6: an invocation moves only along Idle -> SourceOpened ->
\* DestinationOpened -> Streaming -> Closed(Success), Idle -> Closed(Fail)
\* and SourceOpened -> Closed(Fail); a failure is the empty string returned,
\* never a fault, and a path is returned only from Closed(Success).
C6_OnlyListedTransitions ==
    [][\A i \in Invs :
          LET before == Phase(pc[i], result[i])
              after == Phase(pc'[i], result'[i])
          IN /\ before # after => <<before, after>> \in PhaseEdges
             /\ after = "ClosedFail" => exc'[i] = "none"
             /\ result'[i] \notin {"pending", ""} => after = "ClosedSuccess"]_vars

\* the frame the overlay of the flat payload P's double-wrapped form gives
NestedOverlay(P) ==
    draw_pose_on_frame(Frame(0), NormalizePredictions(ListRaw(<< ListEntry(P) >>)))

\* a non-empty list of dicts whose keypoints, if any, are (x, y) pairs
IsPersonList(raw) ==
    /\ raw.isList /\ raw.elems # <<>>
    /\ \A k \in 1..Len(raw.elems) :
          /\ raw.elems[k].kind = "dict"
          /\ ~UnpackFails(GetKeypoints(raw.elems[k]))

\* C7: for every non-empty sequence P of person detections, the flat
\* payload P and the double-wrapped payload [P] are normalized to the same
\* detection list and give the identical rendered frame.
C7_FlatEqualsNested ==
    (stage = "drawn" /\ IsPersonList(payload)) =>
        overlay = NestedOverlay(payload.elems)

\* the record the index of invocation i holds for 0-based frame k is absent,
\* or has no or empty predictions
NoDetections(i, k) ==
    \/ k \notin DOMAIN api_frames_data[i]
    \/ ~api_frames_data[i][k].has_pred
    \/ api_frames_data[i][k].predictions = ListRaw(<<>>)

\* C8: a decoded frame whose index has no record, or whose record has empty
\* predictions, is written as decoded, with nothing drawn; for an error
\* document with no frames field that is every frame.
C8_NoDetectionsNoDrawing ==
    \A i \in Invs :
        \A k \in 1..Len(written[i]) :
            (NoDetections(i, k - 1) \/ ~doc[i].has_frames) =>
                written[i][k] = Frame(k - 1)

\* C8 witness: a render that drew on its first frame and wrote its second,
\* which has no record, untouched
C8_Witness ==
    \E i \in Invs :
        /\ pc[i] = "returned" /\ Len(written[i]) = 2
        /\ written[i][1].ops # <<>>
        /\ 1 \notin DOMAIN api_frames_data[i]
        /\ written[i][2] = Frame(1)

\* the score the overlay pairs with 1-based keypoint k of a person
ScoreAt(person, k) ==
    IF k <= Len(GetScores(person)) THEN GetScores(person)[k] ELSE 0

HasOp(kind, pidx, a, b) ==
    \E n \in 1..Len(overlay.frame.ops) :
        LET op == overlay.frame.ops[n]
        IN op.kind = kind /\ op.person = pidx /\ op.a = a /\ op.b = b

CountOps(kind, pidx, a, b) ==
    Cardinality({ n \in 1..Len(overlay.frame.ops) :
        LET op == overlay.frame.ops[n]
        IN op.kind = kind /\ op.person = pidx /\ op.a = a /\ op.b = b })

Returned == stage = "drawn" /\ overlay.raised = "none"

\* C9: in the frame draw_pose_on_frame returns, every keypoint of every
\* person has a circle exactly when its score is strictly greater than
\* min_score_thresh; a score equal to it gets none.
C9_CircleIffAboveThreshold ==
    Returned =>
        \A p \in 1..Len(persons) :
            \A k \in 1..Len(GetKeypoints(persons[p])) :
                /\ HasOp("circle", p - 1, k - 1, k - 1)
                      <=> ScoreAt(persons[p], k) > MinScoreThresh
                /\ CountOps("circle", p - 1, k - 1, k - 1) <= 1
                /\ \A n \in 1..Len(overlay.frame.ops) :
                      LET op == overlay.frame.ops[n]
                      IN (op.kind = "circle" /\ op.person = p - 1 /\ op.a = k - 1) =>
                            op.p1 = << IntOf(GetKeypoints(persons[p])[k].x),
                                       IntOf(GetKeypoints(persons[p])[k].y) >>

\* C9 witness: a returned frame of a person with a keypoint exactly at the
\* threshold and another above it
C9_Witness ==
    /\ Returned
    /\ \E p \in 1..Len(persons) :
          \E k1, k2 \in 1..Len(GetKeypoints(persons[p])) :
              /\ ScoreAt(persons[p], k1) = MinScoreThresh
              /\ ScoreAt(persons[p], k2) > MinScoreThresh
              /\ HasOp("circle", p - 1, k2 - 1, k2 - 1)

Bones == { COCO_CONNECTIONS[c] : c \in 1..Len(COCO_CONNECTIONS) }

InRange(person, a) == a < Len(GetKeypoints(person))

\* C10: in the frame draw_pose_on_frame returns, every bone (a, b) of every
\* person has a line exactly when both indices are within the person's
\* keypoint list and both scores strictly exceed min_score_thresh; an index
\* out of range draws nothing and raises no fault.
C10_LineIffBothAbove ==
    /\ Returned =>
          \A p \in 1..Len(persons) :
              \A bone \in Bones :
                  /\ HasOp("line", p - 1, bone[1], bone[2])
                        <=> /\ InRange(persons[p], bone[1])
                            /\ InRange(persons[p], bone[2])
                            /\ ScoreAt(persons[p], bone[1] + 1) > MinScoreThresh
                            /\ ScoreAt(persons[p], bone[2] + 1) > MinScoreThresh
                  /\ CountOps("line", p - 1, bone[1], bone[2]) <= 1
    /\ (stage = "drawn"
          /\ \A p \in 1..Len(persons) :
                /\ persons[p].kind = "dict"
                /\ ~UnpackFails(GetKeypoints(persons[p]))) =>
          overlay.raised = "none"

\* C10 witness: a returned frame of a person with a bone of which exactly
\* one endpoint is above the threshold, a bone with an endpoint out of
\* range, and a bone that is drawn
C10_Witness ==
    /\ Returned
    /\ \E p \in 1..Len(persons) :
          /\ \E bone \in Bones :
                /\ InRange(persons[p], bone[1]) /\ InRange(persons[p], bone[2])
                /\ ScoreAt(persons[p], bone[1] + 1) > MinScoreThresh
                /\ ScoreAt(persons[p], bone[2] + 1) <= MinScoreThresh
          /\ \E bone \in Bones :
                InRange(persons[p], bone[1]) /\ ~InRange(persons[p], bone[2])
          /\ \E bone \in Bones : HasOp("line", p - 1, bone[1], bone[2])

\* a dict with keypoints that are pairs and with scores
WellFormed(person) ==
    /\ person.kind = "dict"
    /\ GetKeypoints(person) # <<>> /\ GetScores(person) # <<>>
    /\ ~UnpackFails(GetKeypoints(person))

\* C11: in one frame's person list a person missing keypoints or scores is
\* skipped on its own: every well-formed person of that list is still drawn
\* (a circle at each of its keypoints above the threshold), wherever the
\* malformed person stands in the list, first included.
C11_MalformedPersonSkippedAlone ==
    (stage = "drawn" /\ IsPersonList(payload)) =>
        /\ overlay.raised = "none"
        /\ \A p \in 1..Len(payload.elems) :
              WellFormed(payload.elems[p]) =>
                  \A k \in 1..Len(GetKeypoints(payload.elems[p])) :
                      ScoreAt(payload.elems[p], k) > MinScoreThresh =>
                          HasOp("circle", p - 1, k - 1, k - 1)

\* C12: the encoder is opened with exactly the frame rate and the frame
\* size read from the opened source; they are read before the detection
\* document is consulted (the index is still unbuilt) and keep their values
\* to the end of the invocation, whatever the document.
C12_EncoderMatchesSource ==
    \A i \in Invs :
        /\ (video[i].openable /\ pc[i] \notin {"idle", "open_source"}) =>
              /\ cap_props[i].fps = props[i].fps
              /\ cap_props[i].width * 10 = props[i].width
              /\ cap_props[i].height * 10 = props[i].height
        /\ pc[i] \in {"gen_name", "open_writer", "build_index"} =>
              api_frames_data[i] = <<>>
        /\ UsesPath(i) =>
              /\ out_params[i].fps = props[i].fps
              /\ out_params[i].width * 10 = props[i].width
              /\ out_params[i].height * 10 = props[i].height

\* C12 witness: a finished render, with a drawing, of a source that is not
\* of the default frame rate
C12_Witness ==
    \E i \in Invs :
        /\ pc[i] = "returned" /\ result[i] # ""
        /\ props[i].fps = 240 /\ props[i].width = 12800
        /\ Len(written[i]) = 1 /\ written[i][1].ops # <<>>
        /\ out_params[i] = [fps |-> 240, width |-> 1280, height |-> props[i].height \div 10]

\* C13: keypoints and scores are paired by index; a keypoint at an index at
\* or beyond the end of the person's scores has score 0.0 and, for any
\* threshold >= 0, gets no circle and no bone ending at it.
C13_MissingScoreNeverDrawn ==
    (Returned /\ min_score_thresh >= 0) =>
        \A p \in 1..Len(persons) :
            \A k \in 1..Len(GetKeypoints(persons[p])) :
                /\ \A n \in 1..Len(overlay.frame.ops) :
                      LET op == overlay.frame.ops[n]
                      IN (op.kind = "circle" /\ op.person = p - 1 /\ op.a = k - 1
                            /\ k <= Len(GetScores(persons[p]))) =>
                                GetScores(persons[p])[k] > min_score_thresh
                /\ k > Len(GetScores(persons[p])) =>
                      \A n \in 1..Len(overlay.frame.ops) :
                          LET op == overlay.frame.ops[n]
                          IN op.person = p - 1 => (op.a # k - 1 /\ op.b # k - 1)

\* C13 witness: a returned frame, under threshold 0, of a person with more
\* keypoints than scores whose scored keypoint was drawn
C13_Witness ==
    /\ Returned /\ min_score_thresh = 0
    /\ \E p \in 1..Len(persons) :
          /\ Len(GetScores(persons[p])) >= 1
          /\ Len(GetScores(persons[p])) < Len(GetKeypoints(persons[p]))
          /\ HasOp("circle", p - 1, 0, 0)

\* the records of a 'frames' sequence whose frame_idx is k, in order
RecordsAt(frames, k) == SelectSeq(frames, LAMBDA fr : fr.frame_idx = k)

\* the payload of the last record of a sequence, [] if it has none
LastPayload(records) ==
    IF records # <<>> /\ records[Len(records)].has_pred
      THEN records[Len(records)].predictions
      ELSE ListRaw(<<>>)

\* the index of invocation i has been built
IndexBuilt(i) ==
    \/ pc[i] \in {"read", "draw", "write", "release"}
    \/ pc[i] = "returned" /\ result[i] # ""
    \/ pc[i] = "raised" /\ exc[i] # "KeyError"

\* C14: frames are processed with indices 0, 1, 2, ... in increasing order;
\* the k-th decoded frame is overlaid with the predictions of the records
\* whose frame_idx is k and of no other record, so records with another
\* frame_idx, and records for no decoded frame, change nothing in it.
C14_FrameGetsItsOwnRecord ==
    \A i \in Invs :
        /\ current_frame_idx[i] = Len(written[i])
        /\ pc[i] \in {"draw", "write"} => current_frame_idx[i] = frame[i].src
        /\ \A k \in 1..Len(written[i]) :
              /\ written[i][k].src = k - 1
              /\ written[i][k] =
                    draw_pose_on_frame(
                        Frame(k - 1),
                        NormalizePredictions(
                            LastPayload(RecordsAt(GetFrames(doc[i]), k - 1)))).frame

\* C14 witness: a two-frame render whose document holds a record for frame 0
\* and a record for frame 2, which is never decoded: frame 0 is drawn on,
\* frame 1 is not
C14_Witness ==
    \E i \in Invs :
        /\ pc[i] = "returned" /\ Len(written[i]) = 2
        /\ Len(GetFrames(doc[i])) = 2
        /\ doc[i].frames[1].frame_idx = 2
        /\ doc[i].frames[1].predictions = ListRaw(<< GoodPerson >>)
        /\ doc[i].frames[2].frame_idx = 0
        /\ written[i][1].ops # <<>>
        /\ written[i][2].ops = <<>>

\* one invocation under the interpreter's scheduling: a function that has
\* been called and has a next statement goes on to execute it
SpecLive == Init /\ [][Next]_vars /\ WF_vars(Next)

\* C17: every invocation on a source of finitely many frames eventually
\* returns: the loop decodes one frame per iteration, is left at the first
\* decode that yields no frame, and the invocation then reaches a Closed
\* state.
C17_EventuallyReturns ==
    /\ [](\A i \in Invs :
            /\ cap_pos[i] <= video[i].ndecodable
            /\ pc[i] = "release" => cap_pos[i] = video[i].ndecodable)
    /\ <>(\A i \in Invs : pc[i] \in {"idle", "returned"})

\* the position in a 'frames' sequence of the last record with frame_idx k
LastPosition(frames, k) ==
    CHOOSE j \in 1..Len(frames) :
        /\ frames[j].frame_idx = k
        /\ \A j2 \in 1..Len(frames) : frames[j2].frame_idx = k => j2 <= j

\* C18: when several records of the document have the same frame_idx, the
\* index maps it to the last of them in sequence order, and only that
\* record's predictions are drawn on the frame.
C18_LastRecordWins ==
    \A i \in Invs :
        IndexBuilt(i) =>
            /\ DOMAIN api_frames_data[i] =
                  { GetFrames(doc[i])[j].frame_idx : j \in 1..Len(GetFrames(doc[i])) }
            /\ \A k \in DOMAIN api_frames_data[i] :
                  /\ api_frames_data[i][k] =
                        GetFrames(doc[i])[LastPosition(GetFrames(doc[i]), k)]
                  /\ k + 1 <= Len(written[i]) =>
                        written[i][k + 1] =
                            draw_pose_on_frame(
                                Frame(k),
                                NormalizePredictions(
                                    IF api_frames_data[i][k].has_pred
                                      THEN GetFrames(doc[i])[LastPosition(GetFrames(doc[i]), k)].predictions
                                      ELSE ListRaw(<<>>))).frame

\* C18 witness: two records for frame 0, the first with a person and the
\* last with none: frame 0 is written with nothing drawn
C18_Witness ==
    \E i \in Invs :
        /\ pc[i] = "returned" /\ Len(written[i]) >= 1
        /\ Len(GetFrames(doc[i])) = 2
        /\ doc[i].frames[1].frame_idx = 0 /\ doc[i].frames[2].frame_idx = 0
        /\ doc[i].frames[1].predictions = ListRaw(<< GoodPerson >>)
        /\ doc[i].frames[2].predictions = ListRaw(<<>>)
        /\ written[i][1].ops = <<>>

\* the payload is a list whose first element is a non-empty list
IsNested(raw) ==
    /\ raw.isList /\ raw.elems # <<>>
    /\ raw.elems[1].kind = "list" /\ raw.elems[1].items # <<>>

\* C19: for a nested payload the detections passed to the overlay are
\* exactly the persons of the first inner sequence; persons of the second
\* and later inner sequences are never drawn.
C19_OnlyFirstInnerListDrawn ==
    IsNested(payload) =>
        /\ stage \in {"normalized", "drawn"} => persons = payload.elems[1].items
        /\ stage = "drawn" =>
              /\ overlay = draw_pose_on_frame(Frame(0), payload.elems[1].items)
              /\ \A n \in 1..Len(overlay.frame.ops) :
                    overlay.frame.ops[n].person < Len(payload.elems[1].items)

\* C19 witness: two inner lists, each holding one drawable person: only
\* the person of the first is drawn
C19_Witness ==
    /\ Returned
    /\ payload = ListRaw(<< ListEntry(<< GoodPerson >>), ListEntry(<< GoodPerson >>) >>)
    /\ overlay.frame.ops # <<>>
    /\ \A n \in 1..Len(overlay.frame.ops) : overlay.frame.ops[n].person = 0

\* the handler of request i leaves render_video_with_pose in this step
RenderEnds(i) == handler[i] = "rendering" /\ handler'[i] # "rendering"

\* the response request i gets in this step has the URLs the render's
\* outcome calls for
UrlsFollowRender(i) ==
    LET r == response'[i]
        name == UploadName(video_id[i], extension[i])
        orig == JoinPath(Mounted(r.original_video_url.dir), r.original_video_url.name)
        proc == JoinPath(Mounted(r.processed_video_url.dir), r.processed_video_url.name)
    IN /\ r.sent
       /\ orig = JoinPath(UPLOAD_DIR, name)
       /\ name \in DOMAIN uploads /\ uploads[name] = video[i]
       /\ (proc = orig) <=> (result[i] = "")
       /\ result[i] # "" =>
             /\ proc = JoinPath(PROCESSED_DIR, OutputName(result[i]))
             /\ result[i] \in files

\* C15: every upload, whether the pose call succeeded or failed, is answered
\* with a response whose processed_video_url points to the original upload
\* exactly when render_video_with_pose returned the empty string and
\* otherwise to the rendered file in the processed-videos directory, and
\* whose original_video_url points to the saved upload.
C15_ResponseUrlsFollowRender ==
    [][\A i \in Invs :
          RenderEnds(i) => handler'[i] = "responded" /\ UrlsFollowRender(i)]_vars

\* C16: the history is append-only: a step in which an upload completes
\* leaves the earlier entries unchanged and in order and adds exactly one
\* entry, that upload's, after them; every other step leaves the history as
\* it was. This holds for uploads whose pose call or render failed too.
C16_HistoryAppendOnly ==
    [][LET old == load_history(history_file)
           new == load_history(history_file')
       IN IF \E i \in Invs : handler[i] # "responded" /\ handler'[i] = "responded"
            THEN \E i \in Invs :
                    /\ handler[i] # "responded" /\ handler'[i] = "responded"
                    /\ new = Append(old,
                                    HistoryEntry(UploadName(video_id[i], extension[i]),
                                                 mock_prediction(video_id[i])))
            ELSE new = old]_vars

\* C16 witness: a history with an earlier entry, then one upload whose pose
\* call failed and one whose render failed, both completed: the earlier
\* entry is first and the two new entries follow it
C16_Witness ==
    /\ \A i \in Invs : handler[i] = "responded"
    /\ \E i \in Invs : pose_api_response[i].error
    /\ \E i \in Invs : result[i] = ""
    /\ Len(load_history(history_file)) = 3
    /\ load_history(history_file)[1] = EarlierEntry
    /\ \E i, j \in Invs :
          /\ i # j
          /\ load_history(history_file)[2].filename = UploadName(video_id[i], extension[i])
          /\ load_history(history_file)[3].filename = UploadName(video_id[j], extension[j])

====
